---------------------------- MODULE Spec2Model ----------------------------
(***************************************************************************)
(* A model of the notebook deep_learning_keras.ipynb: the cells that load  *)
(* and prepare MNIST, build one of two keras.Sequential models, compile,   *)
(* fit with the ModelCheckpoint and EarlyStopping callbacks, save, load,   *)
(* evaluate and predict.                                                   *)
(*                                                                         *)
(* The notebook is a sequence of calls into numpy and Keras.  Each call is *)
(* modelled by what the called routine does with the arguments the         *)
(* notebook passes (and the library's defaults for those it leaves out):   *)
(* float32 division is IEEE round-to-nearest, EarlyStopping and            *)
(* ModelCheckpoint are the callbacks' on_train_begin/on_epoch_end, fit is  *)
(* the trainer's epoch loop.  What the library computes numerically        *)
(* (gradients, the forward pass) is left uninterpreted: parameters are a   *)
(* version number that every training epoch advances, a validation loss    *)
(* is an input of the epoch, and a prediction is a term over the layers,   *)
(* the parameters and the input.                                           *)
(***************************************************************************)
EXTENDS Integers, Sequences, FiniteSets, TLC

VARIABLES
    raw_train,  \* what keras.datasets.mnist.load_data() returns for training
    raw_test,   \* ... and for testing
    x_train,    \* the notebook's name x_train
    x_test,     \* the notebook's name x_test
    model,      \* the notebook's name model (the object it is bound to)
    files,      \* the working directory: file name -> saved model
    fit,        \* the state of model.fit and of its callbacks
    saved,      \* the model as it was when model.save last ran (NoModel: never)
    last_op,    \* the cell run last and what it acted on
    pc          \* the next cell of a top-to-bottom run (0: cells run in any order)

vars == <<raw_train, raw_test, x_train, x_test, model, files, fit, saved,
          last_op, pc>>

(***************************************************************************)
(* Program constants.                                                      *)
(***************************************************************************)
num_classes == 10
img_rows == 28
img_cols == 28
input_shape == <<28, 28, 1>>
epochs == 20
patience == 2
MaxPixel == 255

(***************************************************************************)
(* Bounds of the model.                                                    *)
(***************************************************************************)
MaxSamples == 2     \* samples per dataset split
MaxLoss == 10       \* validation losses are 0..MaxLoss
MaxObjects == 3     \* model objects created in one session
MaxParams == 3      \* model.fit is not started on parameters this far trained
MaxImproving == 1   \* the improving epochs of a plateau trace
MaxHigher == 1      \* the epochs of a run taken step by step that end above the best loss

Pixels == 0..MaxPixel

(***************************************************************************)
(* float32.  A float32 value is [m, e], standing for m * 2^e, with         *)
(* m = 0 or 2^23 <= m < 2^24 (24 significant bits).                        *)
(***************************************************************************)
Pow2(n) == 2 ^ n
MantBits == 23

\* x_train.astype("float32"): a uint8 is exactly representable.
astype_float32(v) == [m |-> v, e |-> 0]

\* The least s with v * 2^s >= d (v > 0): v/d lies in [2^-s, 2^(1-s)).
RECURSIVE ShiftUp(_, _, _)
ShiftUp(v, d, s) == IF v >= d THEN s ELSE ShiftUp(2 * v, d, s + 1)

\* Long division: bits more quotient bits of (q + r/d), <<quotient, remainder>>.
RECURSIVE LongDiv(_, _, _, _)
LongDiv(q, r, d, bits) ==
    IF bits = 0 THEN <<q, r>>
    ELSE LongDiv(2 * q + ((2 * r) \div d), (2 * r) % d, d, bits - 1)

\* A division that truncates instead of rounding.
RoundTowardZero(q, r, d) == q

\* Round to nearest, ties to even, of q + r/d.
RoundNearestEven(q, r, d) ==
    IF 2 * r > d \/ (2 * r = d /\ q % 2 = 1) THEN q + 1 ELSE q

\* The float32 quotient f / d of an integer-valued float32 f by the integer d.
float32_div(f, d) ==
    IF f.m = 0 THEN [m |-> 0, e |-> 0]
    ELSE LET s  == ShiftUp(f.m, d, 0)
             n  == f.m * Pow2(s)
             qr == LongDiv(n \div d, n % d, d, MantBits)
             q  == RoundNearestEven(qr[1], qr[2], d)
         IN  IF q = Pow2(MantBits + 1)
             THEN [m |-> Pow2(MantBits), e |-> 1 - s - MantBits]
             ELSE [m |-> q, e |-> 0 - s - MantBits]

(***************************************************************************)
(* Arrays: a shape, a dtype and one representative element.                *)
(***************************************************************************)
Undefined == [shape |-> <<>>, dtype |-> "undefined", px |-> <<>>]

IsDefined(a) == a.dtype # "undefined"

\* mnist.load_data(): uint8 arrays of shape (n, 28, 28).
RawArrays ==
    { [shape |-> <<n, img_rows, img_cols>>, dtype |-> "uint8", px |-> <<v>>] :
        n \in 1..MaxSamples, v \in Pixels }

\* a.astype("float32") / 255
Scale(a) ==
    [a EXCEPT !.dtype = "float32",
              !.px = [i \in DOMAIN a.px |->
                        float32_div(astype_float32(a.px[i]), MaxPixel)]]

\* np.expand_dims(a, 0): the new axis in front.
expand_dims_front(a) == [a EXCEPT !.shape = <<1>> \o @]

\* np.expand_dims(a, -1)
expand_dims(a) == [a EXCEPT !.shape = Append(@, 1)]

\* The shape of one sample of the array a: a.shape[1:].
SampleShape(a) == Tail(a.shape)

(***************************************************************************)
(* Layers and shapes.  A shape is the shape of one sample (no batch axis). *)
(***************************************************************************)
Conv2D(filters, k) == [kind |-> "Conv2D", units |-> filters, size |-> k]
MaxPooling2D(k) == [kind |-> "MaxPooling2D", units |-> 0, size |-> k]
GlobalAveragePooling2D == [kind |-> "GlobalAveragePooling2D", units |-> 0, size |-> 0]
Dropout == [kind |-> "Dropout", units |-> 0, size |-> 0]
Flatten == [kind |-> "Flatten", units |-> 0, size |-> 0]
Dense(units) == [kind |-> "Dense", units |-> units, size |-> 0]

\* The convolutional network without its classification layer.
ConvLayersNoHead ==
    << Conv2D(64, 3), Conv2D(64, 3), MaxPooling2D(2),
       Conv2D(128, 3), Conv2D(128, 3), GlobalAveragePooling2D, Dropout >>

\* The first model cell: the convolutional network of the Keras tutorial.
ConvLayers ==
    << Conv2D(64, 3), Conv2D(64, 3), MaxPooling2D(2),
       Conv2D(128, 3), Conv2D(128, 3), GlobalAveragePooling2D,
       Dropout, Dense(num_classes) >>

\* The second model cell: one perceptron per class.
DenseLayers == << Flatten, Dense(num_classes) >>

\* What a layer raises its ValueError with, as a shape.
ShapeError == <<0>>

\* Whether a layer accepts the input shape s.
Accepts(layer, s) ==
    /\ s # ShapeError
    /\ CASE layer.kind \in {"Conv2D", "MaxPooling2D"} ->
                Len(s) = 3 /\ s[1] >= layer.size /\ s[2] >= layer.size
         [] layer.kind = "GlobalAveragePooling2D" -> Len(s) = 3
         [] layer.kind = "Dense" -> Len(s) >= 1
         [] OTHER -> TRUE

RECURSIVE Product(_)
Product(s) == IF s = <<>> THEN 1 ELSE Head(s) * Product(Tail(s))

\* layer.compute_output_shape(s): padding "valid", strides 1 (Conv2D) and
\* pool_size (MaxPooling2D), the defaults.
OutShape(layer, s) ==
    IF ~Accepts(layer, s) THEN ShapeError
    ELSE CASE layer.kind = "Conv2D" ->
                  <<s[1] - layer.size + 1, s[2] - layer.size + 1, layer.units>>
           [] layer.kind = "MaxPooling2D" ->
                  <<(s[1] - layer.size) \div layer.size + 1,
                    (s[2] - layer.size) \div layer.size + 1, s[3]>>
           [] layer.kind = "GlobalAveragePooling2D" -> <<s[3]>>
           [] layer.kind = "Flatten" -> <<Product(s)>>
           [] layer.kind = "Dense" -> [s EXCEPT ![Len(s)] = layer.units]
           [] OTHER -> s

\* The shapes along the stack: shapes[1] is the input's, shapes[i + 1] the
\* output of layers[i].
RECURSIVE StageShapes(_, _)
StageShapes(layers, s) ==
    IF layers = <<>> THEN <<s>>
    ELSE <<s>> \o StageShapes(Tail(layers), OutShape(Head(layers), s))

(***************************************************************************)
(* Models.  A model object has an identity, its layers, the shapes Keras   *)
(* computed when it was built, its parameters and whether it is compiled.  *)
(***************************************************************************)
NoModel ==
    [id |-> 0, layers |-> <<>>, input |-> <<>>, shapes |-> <<>>,
     params |-> 0, compiled |-> FALSE]

HasModel(m) == m.id > 0

\* keras.Sequential([keras.layers.Input(shape=shape), ...layers]): freshly
\* initialized parameters (version 0), not compiled.
Sequential(id, shape, layers) ==
    [id |-> id, layers |-> layers, input |-> shape,
     shapes |-> StageShapes(layers, shape), params |-> 0, compiled |-> FALSE]

\* Whether the model was built without a shape error.
Built(m) == HasModel(m) /\ \A i \in DOMAIN m.shapes : m.shapes[i] # ShapeError

\* The forward pass, uninterpreted: a term over the layers, the parameters
\* and the input.
Predict(m, x) == <<m.layers, m.params, x.px>>

\* The .keras archive of a model: its config, its weights, its compile config.
Serialize(m) ==
    [config |-> [input |-> m.input, layers |-> m.layers],
     weights |-> m.params,
     compile_config |-> m.compiled]

\* A load that rebuilds the model and leaves its fresh weights.
DeserializeConfigOnly(id, f) ==
    [Sequential(id, f.config.input, f.config.layers)
        EXCEPT !.compiled = f.compile_config]

\* keras.saving.load_model: a new object rebuilt from the config, with the
\* saved weights, compiled when the saved model was.
Deserialize(id, f) ==
    [Sequential(id, f.config.input, f.config.layers)
        EXCEPT !.params = f.weights, !.compiled = f.compile_config]

\* File names.
FinalPath == <<"final_model.keras">>
\* The name formatted with the epoch as the loop counts it, from 0.
CheckpointPathFromZero(epoch) == <<"model_at_epoch_", epoch, ".keras">>

\* "model_at_epoch_{epoch}.keras".format(epoch=epoch + 1), epoch counted from 0.
CheckpointPath(epoch) == <<"model_at_epoch_", epoch + 1, ".keras">>

(***************************************************************************)
(* model.fit and its callbacks.  The state of a call is                    *)
(*   pc             idle | running | returned                              *)
(*   epoch          the epochs completed                                   *)
(*   stop_training  model.stop_training                                    *)
(*   wait, best, best_epoch, stopped_epoch   EarlyStopping's fields        *)
(*                  (best is <<>> for None)                                *)
(*   history        History.history["val_loss"]                            *)
(*   written        the files the call has written                         *)
(***************************************************************************)
FitIdle ==
    [pc |-> "idle", epoch |-> 0, stop_training |-> FALSE, wait |-> 0,
     best |-> <<>>, best_epoch |-> 0, stopped_epoch |-> 0,
     history |-> <<>>, written |-> {}]

\* fit's prologue: stop_training = False, then every callback's on_train_begin.
on_train_begin == [FitIdle EXCEPT !.pc = "running"]

\* One epoch of optimizer steps over the mini-batches.
TrainEpoch(m) == [m EXCEPT !.params = @ + 1]

\* An improvement test with np.less_equal.
is_improvement_or_equal(monitor_value, reference_value) ==
    \/ reference_value = <<>>
    \/ monitor_value <= reference_value[1]

\* EarlyStopping._is_improvement with monitor_op = np.less, min_delta = 0.
is_improvement(monitor_value, reference_value) ==
    \/ reference_value = <<>>
    \/ monitor_value < reference_value[1]

\* EarlyStopping(monitor="val_loss", patience=2).on_epoch_end(epoch, logs)
EarlyStopping_on_epoch_end(f, epoch, current) ==
    LET waited == f.wait + 1
    IN  IF is_improvement(current, f.best)
        THEN [f EXCEPT !.best = <<current>>, !.best_epoch = epoch, !.wait = 0]
        ELSE IF waited >= patience /\ epoch > 0
        THEN [f EXCEPT !.wait = waited, !.stopped_epoch = epoch,
                       !.stop_training = TRUE]
        ELSE [f EXCEPT !.wait = waited]

\* ModelCheckpoint(filepath="model_at_epoch_{epoch}.keras").on_epoch_end:
\* save_freq = "epoch", save_best_only = False, the whole model is saved.
ModelCheckpoint_on_epoch_end(w, epoch) ==
    [w EXCEPT !.files = (CheckpointPath(epoch) :> Serialize(w.model)) @@ @,
              !.fit.written = @ \cup {CheckpointPath(epoch)}]

\* History.on_epoch_end: append the epoch's logs.
History_on_epoch_end(f, current) == [f EXCEPT !.history = Append(@, current)]

\* The callbacks with EarlyStopping(restore_best_weights=True): on stopping,
\* the model gets the weights of the best epoch back.
on_epoch_end_restore_best(w, epoch, val_loss) ==
    LET w1 == ModelCheckpoint_on_epoch_end(w, epoch)
        f2 == EarlyStopping_on_epoch_end(w1.fit, epoch, val_loss)
        w2 == [w1 EXCEPT !.fit = History_on_epoch_end(f2, val_loss)]
    IN  IF f2.stop_training
        THEN [w2 EXCEPT !.model.params =
                  w1.files[CheckpointPath(f2.best_epoch)].weights]
        ELSE w2

\* callbacks.on_epoch_end(epoch, logs): the notebook's callbacks in list
\* order, then the History callback fit adds.
on_epoch_end(w, epoch, val_loss) ==
    LET w1 == ModelCheckpoint_on_epoch_end(w, epoch)
        f2 == EarlyStopping_on_epoch_end(w1.fit, epoch, val_loss)
    IN  [w1 EXCEPT !.fit = History_on_epoch_end(f2, val_loss)]

\* The body of fit's loop "for epoch in range(epochs)" for epoch = w.fit.epoch.
Epoch(w, val_loss) ==
    LET trained == [w EXCEPT !.model = TrainEpoch(@)]
        ended   == on_epoch_end(trained, w.fit.epoch, val_loss)
    IN  [ended EXCEPT !.fit.epoch = @ + 1]

\* A loop over range(epochs + 1).
KeepTrainingOneMore(f) == f.epoch <= epochs /\ ~f.stop_training

\* The loop goes on: the range is not exhausted and no "if stop_training: break".
KeepTraining(f) == f.epoch < epochs /\ ~f.stop_training

\* fit's epilogue.
fit_return(f) == [f EXCEPT !.pc = "returned"]

\* The whole loop, on the per-epoch validation losses trace[1], trace[2], ...
RECURSIVE RunEpochs(_, _)
RunEpochs(w, trace) ==
    IF KeepTraining(w.fit)
    THEN RunEpochs(Epoch(w, trace[w.fit.epoch + 1]), trace)
    ELSE [w EXCEPT !.fit = fit_return(@)]

\* model.fit(x, ...) raises unless the model is compiled and x fits its input.
CanFit(m, x) ==
    /\ Built(m)
    /\ m.compiled
    /\ IsDefined(x)
    /\ SampleShape(x) = m.input

World == [model |-> model, files |-> files, fit |-> fit]

(***************************************************************************)
(* The validation losses.  Training is stochastic: the loss an epoch ends  *)
(* with is an input.  A step of fit draws it around the best loss so far:  *)
(* lower, equal, or (in at most MaxHigher epochs of a run) higher.         *)
(***************************************************************************)
Losses == 0..MaxLoss

\* The epochs of the history h whose loss is above an earlier one.
HigherEpochs(h) == {i \in DOMAIN h : \E j \in 1..(i - 1) : h[j] < h[i]}

LossChoices(f) ==
    IF f.best = <<>> THEN {MaxLoss}
    ELSE ( {f.best[1] - 1, f.best[1]}
           \cup (IF Cardinality(HigherEpochs(f.history)) < MaxHigher
                 THEN {f.best[1] + 1} ELSE {}) ) \cap Losses

\* Whole runs, for a cell that runs fit to its end: k improving epochs and
\* then a loss d above the best, and a loss that improves every second epoch.
Plateau(k, d) ==
    [i \in 1..epochs |-> IF i <= k THEN MaxLoss - i ELSE MaxLoss - k + d]

Alternating == [i \in 1..epochs |-> MaxLoss - (i \div 2)]

ValTraces ==
    {Plateau(k, d) : k \in 1..MaxImproving, d \in 0..1} \cup {Alternating}

(***************************************************************************)
(* The cells.  A cell whose code raises (an undefined name, a shape error, *)
(* a missing file) changes nothing and is not a step.                      *)
(***************************************************************************)
\* The two model cells the other way round.
CellOrderDenseFirst ==
    << "prepare", "show", "build_dense", "build_conv", "summary", "compile",
       "fit", "save", "load", "evaluate", "predict" >>

CellOrder ==
    << "prepare", "show", "build_conv", "build_dense", "summary", "compile",
       "fit", "save", "load", "evaluate", "predict" >>

CellIndex(cell) == CHOOSE i \in DOMAIN CellOrder : CellOrder[i] = cell

\* The cell may run now: any cell when cells are run by hand (pc = 0), the
\* next one in a top-to-bottom run.
At(cell) == fit.pc # "running" /\ (pc = 0 \/ pc = CellIndex(cell))

Ran(cell, layers, out) ==
    /\ last_op' = [cell |-> cell, layers |-> layers, out |-> out]
    /\ pc' = IF pc = 0 THEN 0 ELSE pc + 1

\* (x_train, ...), (x_test, ...) = load_data(); scale; expand_dims
CellPrepare ==
    /\ At("prepare")
    /\ x_train' = expand_dims(Scale(raw_train))
    /\ x_test' = expand_dims(Scale(raw_test))
    /\ Ran("prepare", <<>>, <<>>)
    /\ UNCHANGED <<raw_train, raw_test, model, files, fit, saved>>

\* plt.imshow(x_train[i,:,:,0]) for the first nine samples
CellShow ==
    /\ At("show")
    /\ IsDefined(x_train)
    /\ Len(x_train.shape) = 4
    /\ Ran("show", <<>>, <<>>)
    /\ UNCHANGED <<raw_train, raw_test, x_train, x_test, model, files, fit, saved>>

Build(cell, layers) ==
    /\ At(cell)
    /\ model.id < MaxObjects
    /\ Built(Sequential(model.id + 1, input_shape, layers))
    /\ model' = Sequential(model.id + 1, input_shape, layers)
    /\ Ran(cell, layers, <<>>)
    /\ UNCHANGED <<raw_train, raw_test, x_train, x_test, files, fit, saved>>

\* model = keras.Sequential([Input, Conv2D, ..., Dense])
CellBuildConv == Build("build_conv", ConvLayers)

\* model = keras.Sequential([Input, Flatten, Dense])
CellBuildDense == Build("build_dense", DenseLayers)

\* model.summary()
CellSummary ==
    /\ At("summary")
    /\ HasModel(model)
    /\ Ran("summary", model.layers, <<>>)
    /\ UNCHANGED <<raw_train, raw_test, x_train, x_test, model, files, fit, saved>>

\* A compile that would initialize the weights anew.
CellCompileResets ==
    /\ At("compile")
    /\ HasModel(model)
    /\ model' = [model EXCEPT !.compiled = TRUE, !.params = 0]
    /\ Ran("compile", model.layers, <<>>)
    /\ UNCHANGED <<raw_train, raw_test, x_train, x_test, files, fit, saved>>

\* model.compile(loss=..., optimizer=..., metrics=[...])
CellCompile ==
    /\ At("compile")
    /\ HasModel(model)
    /\ model' = [model EXCEPT !.compiled = TRUE]
    /\ Ran("compile", model.layers, <<>>)
    /\ UNCHANGED <<raw_train, raw_test, x_train, x_test, files, fit, saved>>

\* model.fit(x_train, y_train, epochs=epochs, callbacks=callbacks, ...), run
\* to its end.
CellFit ==
    /\ At("fit")
    /\ CanFit(model, x_train)
    /\ model.params < MaxParams
    /\ \E trace \in ValTraces :
          LET w == RunEpochs([World EXCEPT !.fit = on_train_begin], trace)
          IN  /\ model' = w.model
              /\ files' = w.files
              /\ fit' = w.fit
    /\ Ran("fit", model.layers, <<>>)
    /\ UNCHANGED <<raw_train, raw_test, x_train, x_test, saved>>

\* model.save("final_model.keras")
CellSave ==
    /\ At("save")
    /\ HasModel(model)
    /\ files' = (FinalPath :> Serialize(model)) @@ files
    /\ saved' = model
    /\ Ran("save", model.layers, <<>>)
    /\ UNCHANGED <<raw_train, raw_test, x_train, x_test, model, fit>>

\* model = keras.saving.load_model("final_model.keras")
CellLoad ==
    /\ At("load")
    /\ FinalPath \in DOMAIN files
    /\ model.id < MaxObjects
    /\ model' = Deserialize(model.id + 1, files[FinalPath])
    /\ Ran("load", files[FinalPath].config.layers, <<>>)
    /\ UNCHANGED <<raw_train, raw_test, x_train, x_test, files, fit, saved>>

CanPredict(m, x) == Built(m) /\ IsDefined(x) /\ SampleShape(x) = m.input

\* score = model.evaluate(x_test, y_test, verbose=0)
CellEvaluate ==
    /\ At("evaluate")
    /\ CanPredict(model, x_test)
    /\ model.compiled
    /\ Ran("evaluate", model.layers, Predict(model, x_test))
    /\ UNCHANGED <<raw_train, raw_test, x_train, x_test, model, files, fit, saved>>

\* predictions = model.predict(x_test[0:9])
CellPredict ==
    /\ At("predict")
    /\ CanPredict(model, x_test)
    /\ Ran("predict", model.layers, Predict(model, x_test))
    /\ UNCHANGED <<raw_train, raw_test, x_train, x_test, model, files, fit, saved>>

(***************************************************************************)
(* model.fit epoch by epoch.                                               *)
(***************************************************************************)
FitBegin ==
    /\ At("fit")
    /\ CanFit(model, x_train)
    /\ model.params < MaxParams
    /\ fit' = on_train_begin
    /\ last_op' = [cell |-> "fit", layers |-> model.layers, out |-> <<>>]
    /\ UNCHANGED <<raw_train, raw_test, x_train, x_test, model, files, saved, pc>>

FitEpoch ==
    /\ fit.pc = "running"
    /\ KeepTraining(fit)
    /\ \E val_loss \in LossChoices(fit) :
          LET w == Epoch(World, val_loss)
          IN  /\ model' = w.model
              /\ files' = w.files
              /\ fit' = w.fit
    /\ UNCHANGED <<raw_train, raw_test, x_train, x_test, saved, last_op, pc>>

FitReturn ==
    /\ fit.pc = "running"
    /\ ~KeepTraining(fit)
    /\ fit' = fit_return(fit)
    /\ pc' = IF pc = 0 THEN 0 ELSE pc + 1
    /\ UNCHANGED <<raw_train, raw_test, x_train, x_test, model, files, saved,
                   last_op>>

(***************************************************************************)
(* Initial states and specifications.                                      *)
(***************************************************************************)
NoOp == [cell |-> "none", layers |-> <<>>, out |-> <<>>]

\* A final_model.keras an earlier session left behind.
StaleFile == Serialize([Sequential(1, input_shape, ConvLayers)
                           EXCEPT !.params = 1, !.compiled = TRUE])

Fresh ==
    /\ x_train = Undefined
    /\ x_test = Undefined
    /\ model = NoModel
    /\ fit = FitIdle
    /\ saved = NoModel
    /\ last_op = NoOp

\* The preparation cell on every pixel value.
InitPrepare ==
    /\ raw_train \in RawArrays
    /\ raw_test \in RawArrays
    /\ files = <<>>
    /\ Fresh
    /\ pc = 0

SpecPrepare == InitPrepare /\ [][CellPrepare]_vars

\* Datasets of the extreme pixel values, and one of them.
EdgeArrays == {a \in RawArrays : a.px[1] \in {0, MaxPixel}}
OneArray == {a \in EdgeArrays : a.shape[1] = MaxSamples /\ a.px[1] = MaxPixel}


Cells ==
    \/ CellPrepare
    \/ CellShow
    \/ CellBuildConv
    \/ CellBuildDense
    \/ CellSummary
    \/ CellCompile
    \/ CellFit
    \/ CellSave
    \/ CellLoad
    \/ CellEvaluate
    \/ CellPredict

\* The cells run by hand, in any order, any number of times.
Init ==
    /\ raw_train \in OneArray
    /\ raw_test \in OneArray
    /\ files = <<>>
    /\ Fresh
    /\ pc = 0
Next == Cells
Spec == Init /\ [][Next]_vars

\* The cells run once, top to bottom.
InitTopDown ==
    /\ raw_train \in EdgeArrays
    /\ raw_test \in EdgeArrays
    /\ files \in {<<>>, FinalPath :> StaleFile}
    /\ Fresh
    /\ pc = 1
SpecTopDown == InitTopDown /\ [][Cells]_vars

\* The top-to-bottom run from the fit cell on, with model.fit taken epoch by
\* epoch: the state the cells above the fit cell leave, then fit, then save.
InitFit ==
    /\ raw_train \in OneArray
    /\ raw_test \in OneArray
    /\ x_train = expand_dims(Scale(raw_train))
    /\ x_test = expand_dims(Scale(raw_test))
    /\ model = [Sequential(1, input_shape, DenseLayers) EXCEPT !.compiled = TRUE]
    /\ files = <<>>
    /\ fit = FitIdle
    /\ saved = NoModel
    /\ last_op = [cell |-> "compile", layers |-> model.layers, out |-> <<>>]
    /\ pc = CellIndex("fit")

NextFit == FitBegin \/ FitEpoch \/ FitReturn \/ CellSave
SpecFit == InitFit /\ [][NextFit]_vars

\* The call of model.fit alone.  The trainer's loop is sequential code that
\* runs on: an epoch that can run does, and a loop that is over returns.
NextFitCall == FitBegin \/ FitEpoch \/ FitReturn
FairSpecFit ==
    InitFit /\ [][NextFitCall]_vars /\ WF_vars(FitEpoch) /\ WF_vars(FitReturn)

(***************************************************************************)
(*                              The claims                                 *)
(***************************************************************************)

\* ---- Preprocessing values ------------------------------------------------
Abs(n) == IF n < 0 THEN 0 - n ELSE n

\* 255 * f - v, in units of 2^f.e, for a float32 f with 2^23 <= f.m <= 2^24:
\* 255 * m - v * 2^-e, computed in two 12-bit limbs of m to stay in range.
ScaledError(v, f) ==
    LET k    == 0 - f.e
        high == MaxPixel * (f.m \div 4096) - v * Pow2(k - 12)
    IN  IF Abs(high) > 1000 THEN 4096000
        ELSE high * 4096 + MaxPixel * (f.m % 4096)

IsFloat32(f) ==
    \/ f.m = 0 /\ f.e = 0
    \/ /\ f.m >= Pow2(MantBits) /\ f.m < Pow2(MantBits + 1)
       /\ f.e >= 0 - 149 /\ f.e <= 104

\* 0 <= f <= 1
InUnitInterval(f) ==
    \/ f.m = 0
    \/ f.m > 0 /\ f.e = 0 - MantBits /\ f.m = Pow2(MantBits)
    \/ f.m > 0 /\ f.m < Pow2(MantBits + 1) /\ f.e < 0 - MantBits

\* f = v/255 exactly
EqualsQuotient(v, f) ==
    IF f.m = 0 THEN v = 0 ELSE IsFloat32(f) /\ ScaledError(v, f) = 0

\* f is a float32 nearest to v/255: |f - v/255| <= half a unit in the last place
NearestToQuotient(v, f) ==
    IF f.m = 0 THEN v = 0
    ELSE IsFloat32(f) /\ 2 * Abs(ScaledError(v, f)) <= MaxPixel

Prepared == IsDefined(x_train) /\ IsDefined(x_test)

\* C1 as stated: after the preparation cell every value of x_train and of
\* x_test equals v/255 for its raw pixel value v, and lies in [0, 1].
C1_ExactQuotient ==
    Prepared =>
        \A i \in DOMAIN raw_train.px : \A j \in DOMAIN raw_test.px :
            /\ EqualsQuotient(raw_train.px[i], x_train.px[i])
            /\ EqualsQuotient(raw_test.px[j], x_test.px[j])
            /\ InUnitInterval(x_train.px[i])
            /\ InUnitInterval(x_test.px[j])

\* C1 amended: after the preparation cell every value of x_train and of
\* x_test is the float32 nearest to v/255 for its raw pixel value v (v/255
\* itself for v = 0 and v = 255), and lies in [0, 1].
C1_NearestFloat32 ==
    Prepared =>
        /\ x_train.dtype = "float32" /\ x_test.dtype = "float32"
        /\ \A a \in {<<raw_train, x_train>>, <<raw_test, x_test>>} :
            \A i \in DOMAIN a[1].px :
                /\ DOMAIN a[2].px = DOMAIN a[1].px
                /\ NearestToQuotient(a[1].px[i], a[2].px[i])
                /\ InUnitInterval(a[2].px[i])
                /\ (a[1].px[i] \in {0, MaxPixel}
                        => EqualsQuotient(a[1].px[i], a[2].px[i]))

C1_Witness ==
    /\ Prepared
    /\ raw_train.px[1] = 1 /\ x_train.px[1].e = 0 - 31
    /\ raw_test.px[1] = 254

\* ---- Preprocessing shapes ------------------------------------------------
\* C2: after the preparation cell every sample of x_train and of x_test has
\* shape (28, 28, 1), the input_shape the models are declared with, and the
\* arrays keep their number of samples.
C2_SampleShape ==
    Prepared =>
        /\ SampleShape(x_train) = <<28, 28, 1>>
        /\ SampleShape(x_test) = <<28, 28, 1>>
        /\ SampleShape(x_train) = input_shape
        /\ SampleShape(x_test) = input_shape
        /\ x_train.shape[1] = raw_train.shape[1]
        /\ x_test.shape[1] = raw_test.shape[1]

C2_Witness ==
    /\ Prepared
    /\ x_train.shape = <<MaxSamples, 28, 28, 1>>
    /\ x_test.shape = <<1, 28, 28, 1>>

\* ---- Shape compatibility -------------------------------------------------
\* What the claim asks of the input s of a stage.
StageFits(layer, s) ==
    /\ s # ShapeError
    /\ \A d \in DOMAIN s : s[d] >= 1
    /\ (layer.kind = "Conv2D" => Len(s) = 3 /\ s[1] >= 3 /\ s[2] >= 3)
    /\ (layer.kind = "MaxPooling2D" => Len(s) = 3 /\ s[1] >= 2 /\ s[2] >= 2)
    /\ (layer.kind = "GlobalAveragePooling2D" => Len(s) = 3)
    /\ (layer.kind = "Dense" => Len(s) = 1)

\* C7: whichever of the two architectures the model has, its first stage gets
\* the declared input shape (28, 28, 1), which is the shape of a prepared
\* sample; every stage gets the output shape of the stage before it and
\* accepts it (no convolution gets a side below 3, no pooling a side below
\* 2); and the last stage puts out a vector of num_classes = 10 values.
C7_ShapeCompatible ==
    HasModel(model) =>
        /\ model.layers \in
              { << Conv2D(64, 3), Conv2D(64, 3), MaxPooling2D(2), Conv2D(128, 3),
                   Conv2D(128, 3), GlobalAveragePooling2D, Dropout, Dense(10) >>,
                << Flatten, Dense(10) >> }
        /\ Len(model.shapes) = Len(model.layers) + 1
        /\ model.shapes[1] = <<28, 28, 1>>
        /\ (IsDefined(x_train) => SampleShape(x_train) = model.shapes[1])
        /\ (IsDefined(x_test) => SampleShape(x_test) = model.shapes[1])
        /\ \A i \in DOMAIN model.layers :
              /\ StageFits(model.layers[i], model.shapes[i])
              /\ model.shapes[i + 1] = OutShape(model.layers[i], model.shapes[i])
        /\ model.shapes[Len(model.shapes)] = <<10>>

C7_Witness ==
    /\ last_op.cell = "build_conv"
    /\ IsDefined(x_train)
    /\ model.shapes = << <<28, 28, 1>>, <<26, 26, 64>>, <<24, 24, 64>>,
                         <<12, 12, 64>>, <<10, 10, 128>>, <<8, 8, 128>>,
                         <<128>>, <<128>>, <<10>> >>

C8_OnlyFitChangesParams ==
    [][ (HasModel(model) /\
         last_op'.cell \in {"summary", "compile", "save", "load", "evaluate", "predict"})
            => model'.params = model.params ]_vars

\* C8 amended: the parameters of a model object are changed by model.fit
\* alone, which advances them once per epoch it runs; summary, compile, save,
\* evaluate and predict leave the model and its parameters as they were; load
\* binds the name model to a new object that holds the parameters stored in
\* final_model.keras, whatever the parameters in memory were.
C8_FitOrLoadChangesParams ==
    [][ /\ (model'.id = model.id /\ model'.params # model.params)
            => /\ last_op'.cell = "fit"
               /\ model'.params = model.params + fit'.epoch
        /\ last_op'.cell \in {"summary", "compile", "save", "evaluate", "predict"}
            => /\ model'.id = model.id
               /\ model'.params = model.params
               /\ model'.layers = model.layers
        /\ last_op'.cell = "load"
            => /\ model'.id # model.id
               /\ model'.params = files[<<"final_model.keras">>].weights ]_vars

C8_Witness ==
    /\ last_op.cell = "load"
    /\ fit.pc = "returned"
    /\ HasModel(saved)
    /\ model.params < fit.epoch

\* ---- The top-to-bottom run -----------------------------------------------
\* C9: in a top-to-bottom run the model that summary, compile, fit, save,
\* load, evaluate and predict act on is the Flatten + Dense(10) model, never
\* the convolutional one, and from the summary cell on the name model is bound
\* to it.
C9_DenseModelIsUsed ==
    /\ last_op.cell \in {"summary", "compile", "fit", "save", "load",
                         "evaluate", "predict"}
          => /\ last_op.layers = << Flatten, Dense(10) >>
             /\ last_op.layers # ConvLayers
    /\ pc > CellIndex("build_dense")
          => model.layers = << Flatten, Dense(10) >>
    /\ pc > CellIndex("save")
          => files[FinalPath].config.layers = << Flatten, Dense(10) >>

C9_Witness ==
    /\ pc = Len(CellOrder) + 1
    /\ last_op.cell = "predict"
    /\ fit.pc = "returned"
    /\ model.params > 0

\* ---- Early stopping ------------------------------------------------------
\* The validation loss of epoch i of the history h did not improve: it is not
\* strictly lower than the lowest loss of the epochs before it.
NotImproved(h, i) == \E j \in 1..(i - 1) : h[j] <= h[i]

\* The last two epochs of h both did not improve.
StaleForTwo(h) ==
    /\ Len(h) >= 2
    /\ NotImproved(h, Len(h))
    /\ NotImproved(h, Len(h) - 1)

\* C4: once model.fit has begun, training is stopped exactly when the
\* validation loss has not improved in the last 2 epochs; then fit runs no
\* further epoch and returns; and as long as that is not so and fewer than 20
\* epochs have run, fit does not return and runs the next epoch.
C4_StopsAfterTwoStaleEpochs ==
    fit.pc # "idle" =>
        /\ Len(fit.history) = fit.epoch
        /\ fit.stop_training <=> StaleForTwo(fit.history)
        /\ (fit.pc = "running" /\ StaleForTwo(fit.history))
              => ~ENABLED FitEpoch /\ ENABLED FitReturn
        /\ (fit.pc = "running" /\ ~StaleForTwo(fit.history) /\ fit.epoch < 20)
              => ENABLED FitEpoch /\ ~ENABLED FitReturn
        /\ (fit.pc = "returned")
              => StaleForTwo(fit.history) \/ fit.epoch = 20

C4_Witness ==
    /\ fit.pc = "returned"
    /\ fit.stop_training
    /\ fit.epoch = 6
    /\ fit.history[6] = fit.history[5]
    /\ fit.history[4] < fit.history[3]

\* ---- Checkpoints ---------------------------------------------------------
\* The checkpoint file names of the epochs 1..k.
CheckpointNames(k) == { <<"model_at_epoch_", i, ".keras">> : i \in 1..k }

\* C5: when model.fit has run k epochs, the checkpoint files it has written
\* are exactly model_at_epoch_1.keras .. model_at_epoch_k.keras, one for
\* every epoch that ran (the one that stopped the training too), and each of
\* them is in the working directory when fit returns.
C5_OneCheckpointPerEpoch ==
    fit.pc # "idle" =>
        /\ fit.written = CheckpointNames(fit.epoch)
        /\ Cardinality(fit.written) = fit.epoch
        /\ fit.written \subseteq DOMAIN files
        /\ \A i \in 1..fit.epoch :
              files[<<"model_at_epoch_", i, ".keras">>].weights
                  = model.params - (fit.epoch - i)

C5_Witness ==
    /\ fit.pc = "returned"
    /\ fit.stop_training
    /\ fit.epoch = 3
    /\ <<"model_at_epoch_", 3, ".keras">> \in fit.written

\* ---- Termination ---------------------------------------------------------
\* C6: a model.fit that has begun returns, whatever the validation losses;
\* it never runs more than epochs = 20 epochs, and has run at least 1 when
\* it returns.
C6_FitTerminates ==
    /\ [](fit.epoch <= 20)
    /\ [](fit.pc = "returned" => fit.epoch >= 1)
    /\ [](fit.pc = "running" => <>(fit.pc = "returned"))

C6_Witness ==
    /\ fit.pc = "returned"
    /\ fit.epoch = 20
    /\ ~fit.stop_training

\* ---- The model fit leaves ------------------------------------------------
\* The epoch of the history h with the lowest validation loss (the first one).
BestEpoch(h) ==
    CHOOSE i \in DOMAIN h :
        /\ \A j \in DOMAIN h : h[i] <= h[j]
        /\ \A j \in 1..(i - 1) : h[j] > h[i]

\* C10: when model.fit has returned after k epochs, the model in memory has
\* the parameters of the checkpoint of epoch k; when another epoch had the
\* lowest validation loss, these are not the parameters of that epoch's
\* checkpoint; and the final_model.keras then saved is the archive of epoch k.
C10_LastEpochModel ==
    fit.pc = "returned" =>
        LET k == Len(fit.history)
            b == BestEpoch(fit.history)
            last == files[<<"model_at_epoch_", k, ".keras">>]
            best == files[<<"model_at_epoch_", b, ".keras">>]
        IN  /\ model.params = last.weights
            /\ b # k => model.params # best.weights
            /\ fit.stop_training => b = k - 2
            /\ last_op.cell = "save"
                  => /\ files[<<"final_model.keras">>] = last
                     /\ (b # k => files[<<"final_model.keras">>] # best)

C10_Witness ==
    /\ fit.pc = "returned"
    /\ fit.stop_training
    /\ last_op.cell = "save"
    /\ BestEpoch(fit.history) = 3
    /\ Len(fit.history) = 5

====
